---- MODULE Spec2Model ----
(***************************************************************************)
(* Room state machine of the jammable backend: the persisted Room record   *)
(* (membership, admin, ban list, queue, player state), the socket event    *)
(* handlers of backend/app/main.py that read, change and save it, and the  *)
(* membership functions of backend/app/services/room.py.                   *)
(*                                                                         *)
(* Conventions.  The server clock is an integer number of half seconds.    *)
(* Python's None is NoSid / NoUser / NoTime / NoTs for the respective      *)
(* field.  A handler is one action; ev records the handler that ran last,  *)
(* its arguments and the values of its local variables.                    *)
(***************************************************************************)
EXTENDS Integers, Sequences, FiniteSets, TLC

VARIABLES
    store,          \* redis: room id -> Room record (only the ids that exist)
    expiry,         \* redis: room id -> the clock at which the key expires
    sid_room_map,   \* main.py sid_room_map: connection id -> room id
    now,            \* time.time(), in half seconds
    next_track,     \* number of Track ids handed out so far (uuid4 is never reused)
    ev,             \* the last event handled
    last_manual,    \* history: the clock at the last manual control action, else NoTime
    inflight        \* the handlers suspended at a store call (asyncio tasks)

vars == <<store, expiry, sid_room_map, now, next_track, ev, last_manual, inflight>>

(***************************************************************************)
(* Bounds of the model                                                     *)
(***************************************************************************)
MaxSids == 3        \* connection ids 1..MaxSids
MaxUserIds == 1     \* persistent user ids 1..MaxUserIds
MaxTracks == 3      \* tracks ever added
MaxOrder == 3       \* length of the id list of a reorder-queue event
StartTime == 4      \* the clock when the room is created
MaxLate == 1        \* instants after the presence threshold has passed
MaxInflight == 2    \* handlers suspended at a store call at the same time
MaxBanned == 1      \* entries of banned_user_ids when handlers interleave

(***************************************************************************)
(* Program constants, in half seconds                                      *)
(***************************************************************************)
SyncGuard == 3      \* 1.5 s
ZombieAfter == 30   \* 15 s
ROOM_TTL == 72000   \* 10 hours

NoSid == 0
NoUser == 0
NoTime == -1
NoTs == -1
NoPassword == "<None>"
NoHash == [salt |-> 0, digest |-> <<>>]

Sids == 1..MaxSids
UserIds == 1..MaxUserIds
RoomIds == {"r1"}
TrackIds == 1..MaxTracks

\* The instants at which events are handled: shortly after StartTime, on both
\* sides of the 1.5 s guard, and again on both sides of the 15 s threshold.
\* The instants at which events are handled.  GuardInstants lie on both sides
\* of the 1.5 s guard, PresenceInstants on both sides of the 15 s threshold.
GuardInstants == {StartTime + o : o \in {0, 2, 3, 5}}
PresenceInstants == {StartTime} \cup {StartTime + ZombieAfter + k : k \in 0..MaxLate}

(***************************************************************************)
(* models/room.py                                                          *)
(***************************************************************************)
PlayerState ==
    [current_track_index |-> 0, is_playing |-> FALSE, timestamp |-> 0,
     last_updated |-> 0, start_time |-> 0, loop_mode |-> "off"]

Track(id, added_by) == [id |-> id, added_by |-> added_by]

Room ==
    [password_hash |-> NoHash, admin_sid |-> NoSid, users |-> <<>>, banned_user_ids |-> <<>>,
     queue |-> <<>>, player |-> PlayerState]

\* A users entry as add_user appends it: no last_seen key yet.
Session(sid, nickname, user_id) ==
    [sid |-> sid, nickname |-> nickname, user_id |-> user_id, last_seen |-> NoTime]

(***************************************************************************)
(* Sequence helpers (Python list idioms)                                   *)
(***************************************************************************)
\* next((i for i, x in enumerate(s) if P(x)), 0), 1-based, 0 when there is none
FirstIndex(s, P(_)) ==
    IF \E i \in DOMAIN s : P(s[i])
    THEN CHOOSE i \in DOMAIN s : P(s[i]) /\ \A j \in 1..(i-1) : ~P(s[j])
    ELSE 0

Range(s) == {s[i] : i \in DOMAIN s}

SidsOf(users) == {users[i].sid : i \in DOMAIN users}

(***************************************************************************)
(* services/room.py                                                        *)
(***************************************************************************)
get_room(room_id) == store[room_id]

\* Python truth of an optional string: None and "" are false
Given(password) == password \notin {NoPassword, ""}

\* passlib's argon2 as a salted one-way hash: hash draws the salt, verify
\* recomputes the digest with the salt stored in the hash
pwd_hash(password, salt) == [salt |-> salt, digest |-> <<salt, password>>]

pwd_verify(password, password_hash) ==
    password_hash = pwd_hash(password, password_hash.salt)

\* verify_password that accepts whatever is given
verify_password_any(room, password) ==
    IF room.password_hash = NoHash THEN TRUE
    ELSE Given(password)

\* verify_password lines 46-51
verify_password(room, password) ==
    IF room.password_hash = NoHash THEN TRUE
    ELSE IF ~Given(password) THEN FALSE
    ELSE pwd_verify(password, room.password_hash)

\* check_room line 61
has_password(room) == room.password_hash # NoHash

\* get_room lines 35-37: redis returns nothing for a key that was never set
\* or whose time to live has run out
RoomExists(room_id) == room_id \in DOMAIN store /\ now < expiry[room_id]

\* save_room that leaves the time to live of an existing key as it is
save_room_keeps_ttl(room_id, room) ==
    /\ store' = (room_id :> room) @@ store
    /\ expiry' = IF room_id \in DOMAIN expiry THEN expiry
                 ELSE (room_id :> now + ROOM_TTL) @@ expiry

\* save_room line 44: set with ex=ROOM_TTL
save_room(room_id, room) ==
    /\ store' = (room_id :> room) @@ store
    /\ expiry' = (room_id :> now + ROOM_TTL) @@ expiry

\* add_user lines 57-62: the first member carrying user_id, 0 when none
existing_user(room, user_id) ==
    IF user_id = NoUser THEN 0
    ELSE FirstIndex(room.users, LAMBDA u : u.user_id = user_id)

\* add_user that appends a session for every join
add_user_appends(room, sid, nickname, user_id) ==
    [room EXCEPT !.users = Append(@, Session(sid, nickname, user_id)),
                 !.admin_sid = IF @ = NoSid THEN sid ELSE @]

add_user(room, sid, nickname, user_id) ==
    LET i == existing_user(room, user_id) IN
    IF i # 0
    THEN LET old_sid == room.users[i].sid IN
         [room EXCEPT !.users[i].sid = sid,
                      !.users[i].nickname = nickname,
                      !.admin_sid = IF @ = old_sid THEN sid ELSE @]
    ELSE IF sid \notin SidsOf(room.users)
    THEN [room EXCEPT !.users = Append(@, Session(sid, nickname, user_id)),
                      !.admin_sid = IF @ = NoSid THEN sid ELSE @]
    ELSE room

\* whether add_user reaches one of its two save_room calls
add_user_saves(room, sid, user_id) ==
    existing_user(room, user_id) # 0 \/ sid \notin SidsOf(room.users)

\* new_admin that promotes the newest member instead of the earliest
new_admin_newest(users, admin_sid, sid) ==
    IF admin_sid = sid
    THEN IF users # <<>> THEN users[Len(users)].sid ELSE NoSid
    ELSE admin_sid

\* remove_user lines 92-96
new_admin(users, admin_sid, sid) ==
    IF admin_sid = sid
    THEN IF users # <<>> THEN users[1].sid ELSE NoSid
    ELSE admin_sid

\* kick_user lines 572-574
ban_target(room, target_sid) ==
    LET i == FirstIndex(room.users, LAMBDA u : u.sid = target_sid) IN
    IF i # 0 /\ room.users[i].user_id # NoUser
    THEN [room EXCEPT !.banned_user_ids = Append(@, room.users[i].user_id)]
    ELSE room

\* remove_user without lines 92-96
remove_user_keeps_admin(room, sid) ==
    [room EXCEPT !.users = SelectSeq(@, LAMBDA u : u.sid # sid)]

remove_user(room, sid) ==
    LET users == SelectSeq(room.users, LAMBDA u : u.sid # sid) IN
    [room EXCEPT !.users = users,
                 !.admin_sid = new_admin(users, room.admin_sid, sid)]

(***************************************************************************)
(* main.py: room creation and membership events                            *)
(***************************************************************************)
\* sio.emit(event, data, to=to) and sio.emit(event, data, room=room,
\* skip_sid=skip_sid): a message to one connection or to the members of a
\* socket room; an absent target is NoSid or NoRoomId
NoRoomId == "<None>"

Emit(event, to, room, skip_sid, data) ==
    [event |-> event, to |-> to, room |-> room, skip_sid |-> skip_sid, data |-> data]

\* create_room lines 13-31, called without creator_sid; salt is argon2's
create_room_endpoint(room_id, password, salt) ==
    /\ ~RoomExists(room_id)
    /\ save_room(room_id,
            [Room EXCEPT !.password_hash =
                IF Given(password) THEN pwd_hash(password, salt) ELSE NoHash])
    /\ ev' = [op |-> "create_room", result |-> "Created", saves |-> 1]
    /\ UNCHANGED <<sid_room_map, now, next_track, last_manual, inflight>>

\* check_room lines 56-61
check_room(room_id) ==
    /\ ev' = IF RoomExists(room_id)
             THEN [op |-> "check_room", result |-> "Found", saves |-> 0,
                   has_password |-> has_password(get_room(room_id))]
             ELSE [op |-> "check_room", result |-> "RoomNotFound", saves |-> 0]
    /\ UNCHANGED <<store, expiry, sid_room_map, now, next_track, last_manual, inflight>>

join_room(sid, room_id, nickname, password, user_id) ==
    /\ IF ~RoomExists(room_id)
       THEN /\ ev' = [op |-> "join_room", result |-> "RoomNotFound", saves |-> 0]
            /\ UNCHANGED <<store, expiry, sid_room_map>>
       ELSE LET room == get_room(room_id) IN
            IF ~verify_password(room, password)
            THEN /\ ev' = [op |-> "join_room", result |-> "WrongPassword", saves |-> 0]
                 /\ UNCHANGED <<store, expiry, sid_room_map>>
            ELSE IF user_id # NoUser /\ user_id \in Range(room.banned_user_ids)
            THEN /\ ev' = [op |-> "join_room", result |-> "Banned", saves |-> 0]
                 /\ UNCHANGED <<store, expiry, sid_room_map>>
            ELSE /\ IF add_user_saves(room, sid, user_id)
                    THEN save_room(room_id, add_user(room, sid, nickname, user_id))
                    ELSE UNCHANGED <<store, expiry, expiry>>
                 /\ sid_room_map' = (sid :> room_id) @@ sid_room_map
                 /\ ev' = [op |-> "join_room", result |-> "Joined", sid |-> sid,
                           replaced |-> existing_user(room, user_id) # 0,
                           saves |-> IF add_user_saves(room, sid, user_id) THEN 1 ELSE 0]
    /\ UNCHANGED <<now, next_track, last_manual, inflight>>

disconnect(sid) ==
    /\ sid_room_map' = [s \in DOMAIN sid_room_map \ {sid} |-> sid_room_map[s]]
    /\ IF sid \in DOMAIN sid_room_map /\ RoomExists(sid_room_map[sid])
       THEN LET room_id == sid_room_map[sid] IN
            /\ save_room(room_id, remove_user(get_room(room_id), sid))
            /\ ev' = [op |-> "disconnect", result |-> "Removed", saves |-> 1, sid |-> sid,
                      admin_left |-> get_room(room_id).admin_sid = sid]
       ELSE /\ UNCHANGED <<store, expiry, expiry>>
            /\ ev' = [op |-> "disconnect", result |-> "NoRoom", saves |-> 0]
    /\ UNCHANGED <<now, next_track, last_manual, inflight>>

\* kick_user lines 579-581: room is the handler's own copy, with the ban
\* appended; remove_user (line 577) read and saved a copy of its own
kick_user_emits(room, room_id, target_sid) ==
    <<Emit("kicked", target_sid, NoRoomId, NoSid, <<>>),
      Emit("room_state", NoSid, room_id, NoSid, [state |-> ban_target(room, target_sid)])>>

kick_user(sid, room_id, target_sid) ==
    /\ IF ~RoomExists(room_id)
       THEN /\ ev' = [op |-> "kick_user", result |-> "RoomNotFound", saves |-> 0]
            /\ UNCHANGED <<store, expiry, expiry>>
       ELSE LET room == get_room(room_id) IN
            IF room.admin_sid # sid
            THEN /\ ev' = [op |-> "kick_user", result |-> "NotAdmin", saves |-> 0]
                 /\ UNCHANGED <<store, expiry, expiry>>
            ELSE /\ save_room(room_id, remove_user(ban_target(room, target_sid), target_sid))
                 /\ ev' = [op |-> "kick_user", result |-> "Kicked", sid |-> target_sid,
                           admin_left |-> room.admin_sid = target_sid,
                           saves |-> IF ban_target(room, target_sid) # room THEN 2 ELSE 1,
                           emits |-> kick_user_emits(room, room_id, target_sid)]
    /\ UNCHANGED <<sid_room_map, now, next_track, last_manual, inflight>>

(***************************************************************************)
(* main.py: presence                                                       *)
(***************************************************************************)
\* the newest last_seen stored for connection sid, NoTime when there is none
LastSeen(room, sid) ==
    LET seen == {room.users[i].last_seen :
                    i \in {j \in DOMAIN room.users : room.users[j].sid = sid}}
    IN IF seen = {} THEN NoTime ELSE CHOOSE t \in seen : \A x \in seen : x <= t

\* client_pong lines 462-467
pong_users(users, sid, t) ==
    LET i == FirstIndex(users, LAMBDA u : u.sid = sid) IN
    IF i = 0 THEN users ELSE [users EXCEPT ![i].last_seen = t]

client_pong(sid, room_id) ==
    /\ IF RoomExists(room_id) /\ sid \in SidsOf(get_room(room_id).users)
       THEN /\ save_room(room_id,
                   [get_room(room_id) EXCEPT !.users = pong_users(@, sid, now)])
            /\ ev' = [op |-> "client_pong", result |-> "Updated", saves |-> 1]
       ELSE /\ UNCHANGED <<store, expiry, expiry>>
            /\ ev' = [op |-> "client_pong", result |-> "NoSession", saves |-> 0]
    /\ UNCHANGED <<sid_room_map, now, next_track, last_manual, inflight>>

\* is_zombie without the exemption of the host
is_zombie_host_too(u, admin_sid, current_time) ==
    LET last_seen == IF u.last_seen = NoTime THEN current_time ELSE u.last_seen IN
    current_time - last_seen > ZombieAfter

\* host_sync lines 442-443
is_zombie(u, admin_sid, current_time) ==
    LET last_seen == IF u.last_seen = NoTime THEN current_time ELSE u.last_seen IN
    current_time - last_seen > ZombieAfter /\ u.sid # admin_sid

\* host_sync lines 438-449
active_users(room, current_time) ==
    SelectSeq(room.users, LAMBDA u : ~is_zombie(u, room.admin_sid, current_time))

(***************************************************************************)
(* main.py: host-authoritative resynchronisation                           *)
(***************************************************************************)
\* sync_guard measured from the playback anchor instead of the last update
sync_guard_from_start_time(player, t) == t - player.start_time < SyncGuard

\* host_sync line 409
sync_guard(player, t) == t - player.last_updated < SyncGuard

\* host_sync_player that anchors playback at the time of the report
host_sync_player_anchored_now(player, timestamp, is_playing, t) ==
    IF timestamp = NoTs THEN player
    ELSE [player EXCEPT
            !.timestamp = timestamp,
            !.is_playing = IF is_playing = "None" THEN @ ELSE is_playing = "True",
            !.start_time = IF is_playing = "True" THEN t ELSE @,
            !.last_updated = t]

\* host_sync lines 413-421; is_playing is "None", "True" or "False"
host_sync_player(player, timestamp, is_playing, t) ==
    IF timestamp = NoTs THEN player
    ELSE [player EXCEPT
            !.timestamp = timestamp,
            !.is_playing = IF is_playing = "None" THEN @ ELSE is_playing = "True",
            !.start_time = IF is_playing = "True" THEN t - timestamp ELSE @,
            !.last_updated = t]

host_sync(sid, room_id, timestamp, is_playing) ==
    LET e == [op |-> "host_sync", timestamp |-> timestamp, is_playing |-> is_playing] IN
    /\ IF ~RoomExists(room_id)
       THEN /\ ev' = e @@ [result |-> "RoomNotFound", saves |-> 0]
            /\ UNCHANGED <<store, expiry, expiry>>
       ELSE LET room == get_room(room_id) IN
            IF room.admin_sid # sid
            THEN /\ ev' = e @@ [result |-> "NotAdmin", saves |-> 0]
                 /\ UNCHANGED <<store, expiry, expiry>>
            ELSE IF sync_guard(room.player, now)
            THEN /\ ev' = e @@ [result |-> "Ignored", saves |-> 0]
                 /\ UNCHANGED <<store, expiry, expiry>>
            ELSE LET users == active_users(room, now)
                     removed_users == users # room.users
                 IN /\ IF timestamp # NoTs \/ removed_users
                       THEN save_room(room_id,
                               [room EXCEPT
                                  !.player = host_sync_player(@, timestamp, is_playing, now),
                                  !.users = users])
                       ELSE UNCHANGED <<store, expiry, expiry>>
                    /\ ev' = e @@ [result |-> "Evaluated", removed_users |-> removed_users,
                                    saves |-> (IF timestamp # NoTs THEN 1 ELSE 0)
                                              + (IF removed_users THEN 1 ELSE 0)]
    /\ UNCHANGED <<sid_room_map, now, next_track, last_manual, inflight>>

(***************************************************************************)
(* main.py: queue events                                                   *)
(***************************************************************************)
Max(a, b) == IF a >= b THEN a ELSE b

\* The nickname of the first member with this connection id, else the default.
adder_name(room, sid) ==
    LET i == FirstIndex(room.users, LAMBDA u : u.sid = sid) IN
    IF i = 0 THEN "Unknown" ELSE room.users[i].nickname

\* media.resolve_media: the external resolver finds a stream or returns None
resolve_media(url) == url = "song"

\* add_track_room that points the player at the first track after every add
add_track_room_resets_index(room, track) ==
    [room EXCEPT !.queue = Append(@, track), !.player.current_track_index = 0]

\* add_track lines 188-199
add_track_room(room, track) ==
    LET queue == Append(room.queue, track) IN
    [room EXCEPT !.queue = queue,
                 !.player.current_track_index = IF Len(queue) = 1 THEN 0 ELSE @]

add_track(sid, room_id, url) ==
    /\ IF url = "none"
       THEN /\ ev' = [op |-> "add_track", result |-> "NoUrl", saves |-> 0]
            /\ UNCHANGED <<store, expiry, next_track>>
       ELSE IF ~resolve_media(url)
       THEN /\ ev' = [op |-> "add_track", result |-> "Unresolved", saves |-> 0]
            /\ UNCHANGED <<store, expiry, next_track>>
       ELSE IF ~RoomExists(room_id)
       THEN /\ ev' = [op |-> "add_track", result |-> "RoomNotFound", saves |-> 0]
            /\ UNCHANGED <<store, expiry, next_track>>
       ELSE LET room == get_room(room_id) IN
            /\ next_track < MaxTracks
            /\ next_track' = next_track + 1
            /\ save_room(room_id,
                   add_track_room(room, Track(next_track + 1, adder_name(room, sid))))
            /\ ev' = [op |-> "add_track", result |-> "Added",
                      saves |-> IF room.queue = <<>> THEN 2 ELSE 1]
    /\ UNCHANGED <<sid_room_map, now, last_manual, inflight>>

\* remove_track lines 211-219: the admin, or the member whose nickname added the track
may_remove(room, sid, track_id) ==
    \/ room.admin_sid = sid
    \/ LET t == FirstIndex(room.queue, LAMBDA x : x.id = track_id)
           u == FirstIndex(room.users, LAMBDA x : x.sid = sid)
       IN t # 0 /\ u # 0 /\ room.queue[t].added_by = room.users[u].nickname

\* remove_track lines 223-227: 0-based position of the first track with this id, else -1
index_of(queue, track_id) == FirstIndex(queue, LAMBDA t : t.id = track_id) - 1

\* repair_index without the reset of an index that ran past the end
repair_index_keeps_stale_index(player, removed_index, queue) ==
    LET current_index == player.current_track_index IN
    IF removed_index = -1 THEN player
    ELSE IF removed_index < current_index
    THEN [player EXCEPT !.current_track_index = Max(0, current_index - 1)]
    ELSE IF removed_index = current_index /\ queue = <<>>
    THEN [player EXCEPT !.is_playing = FALSE, !.current_track_index = 0]
    ELSE player

\* remove_track lines 232-242; queue is the queue after the removal
repair_index(player, removed_index, queue) ==
    LET current_index == player.current_track_index IN
    IF removed_index = -1 THEN player
    ELSE IF removed_index < current_index
    THEN [player EXCEPT !.current_track_index = Max(0, current_index - 1)]
    ELSE IF removed_index = current_index
    THEN IF queue = <<>>
         THEN [player EXCEPT !.is_playing = FALSE, !.current_track_index = 0]
         ELSE IF current_index >= Len(queue)
         THEN [player EXCEPT !.current_track_index = 0]
         ELSE player
    ELSE player

\* remove_track lines 222-242
remove_track_room(room, track_id) ==
    LET queue == SelectSeq(room.queue, LAMBDA t : t.id # track_id) IN
    [room EXCEPT !.queue = queue,
                 !.player = repair_index(@, index_of(room.queue, track_id), queue)]

remove_track(sid, room_id, track_id) ==
    /\ IF ~RoomExists(room_id)
       THEN /\ ev' = [op |-> "remove_track", result |-> "RoomNotFound", saves |-> 0]
            /\ UNCHANGED <<store, expiry, expiry>>
       ELSE LET room == get_room(room_id) IN
            IF ~may_remove(room, sid, track_id)
            THEN /\ ev' = [op |-> "remove_track", result |-> "NotAuthorized", saves |-> 0]
                 /\ UNCHANGED <<store, expiry, expiry>>
            ELSE /\ save_room(room_id, remove_track_room(room, track_id))
                 /\ ev' = [op |-> "remove_track", result |-> "Saved", saves |-> 1,
                           track_id |-> track_id,
                           removed_index |-> index_of(room.queue, track_id),
                           current_index |-> room.player.current_track_index]
    /\ UNCHANGED <<sid_room_map, now, next_track, last_manual, inflight>>

NoTrack == 0

\* reorder_queue lines 260-262
current_track_id(room) ==
    LET i == room.player.current_track_index IN
    IF 0 <= i /\ i < Len(room.queue) THEN room.queue[i + 1].id ELSE NoTrack

\* reorder_queue lines 265-269; id_map keeps the last track of each id
reordered(queue, new_queue_ids) ==
    LET known == SelectSeq(new_queue_ids, LAMBDA tid : \E i \in DOMAIN queue : queue[i].id = tid)
        id_map(tid) == queue[CHOOSE i \in DOMAIN queue :
                                 /\ queue[i].id = tid
                                 /\ \A j \in DOMAIN queue : queue[j].id = tid => j <= i]
    IN [k \in DOMAIN known |-> id_map(known[k])]

\* relocate that resets whenever the playing track is not where it was
relocate_by_position(player, track_id, queue) ==
    IF track_id = NoTrack THEN player
    ELSE IF current_track_id([queue |-> queue, player |-> player]) = track_id
    THEN player
    ELSE [player EXCEPT !.current_track_index = 0, !.is_playing = FALSE]

\* reorder_queue lines 274-285
relocate(player, track_id, queue) ==
    IF track_id = NoTrack THEN player
    ELSE LET new_index == index_of(queue, track_id) IN
         IF new_index # -1
         THEN [player EXCEPT !.current_track_index = new_index]
         ELSE [player EXCEPT !.current_track_index = 0, !.is_playing = FALSE]

reorder_queue_room(room, new_queue_ids) ==
    LET queue == reordered(room.queue, new_queue_ids) IN
    [room EXCEPT !.queue = queue,
                 !.player = relocate(@, current_track_id(room), queue)]

reorder_queue(sid, room_id, new_queue_ids) ==
    /\ IF ~RoomExists(room_id)
       THEN /\ ev' = [op |-> "reorder_queue", result |-> "RoomNotFound", saves |-> 0]
            /\ UNCHANGED <<store, expiry, expiry>>
       ELSE LET room == get_room(room_id) IN
            /\ save_room(room_id, reorder_queue_room(room, new_queue_ids))
            /\ ev' = [op |-> "reorder_queue", result |-> "Saved", saves |-> 1,
                      queue_ids |-> new_queue_ids,
                      current_track_id |-> current_track_id(room),
                      kept |-> current_track_id(room) \in Range(new_queue_ids)]
    /\ UNCHANGED <<sid_room_map, now, next_track, last_manual, inflight>>

\* random.shuffle: every arrangement of the list
Shuffles(s) ==
    LET n == Len(s)
        Bijections == {f \in [1..n -> 1..n] : \A i, j \in 1..n : f[i] = f[j] => i = j}
    IN {[i \in 1..n |-> s[f[i]]] : f \in Bijections}

Without(s, i) == SubSeq(s, 1, i - 1) \o SubSeq(s, i + 1, Len(s))

\* shuffle_outcomes that shuffles the playing track along with the rest
shuffle_outcomes_unpinned(queue, current_index) == Shuffles(queue)

\* shuffle_queue lines 306-317: the outcomes of the shuffle
shuffle_outcomes(queue, current_index) ==
    IF 0 <= current_index /\ current_index < Len(queue)
    THEN {<<queue[current_index + 1]>> \o other_tracks :
              other_tracks \in Shuffles(Without(queue, current_index + 1))}
    ELSE Shuffles(queue)

shuffle_queue(sid, room_id) ==
    /\ IF ~RoomExists(room_id)
       THEN /\ ev' = [op |-> "shuffle_queue", result |-> "RoomNotFound", saves |-> 0]
            /\ UNCHANGED <<store, expiry, expiry>>
       ELSE LET room == get_room(room_id) IN
            IF room.queue = <<>>
            THEN /\ ev' = [op |-> "shuffle_queue", result |-> "Empty", saves |-> 0]
                 /\ UNCHANGED <<store, expiry, expiry>>
            ELSE /\ \E queue \in shuffle_outcomes(room.queue, room.player.current_track_index) :
                       save_room(room_id,
                           [room EXCEPT !.queue = queue, !.player.current_track_index = 0])
                 /\ ev' = [op |-> "shuffle_queue", result |-> "Saved", saves |-> 1,
                           current_index |-> room.player.current_track_index]
    /\ UNCHANGED <<sid_room_map, now, next_track, last_manual, inflight>>

(***************************************************************************)
(* main.py: playback control                                               *)
(***************************************************************************)
play_track(sid, room_id, track_id) ==
    /\ IF ~RoomExists(room_id)
       THEN /\ ev' = [op |-> "play_track", result |-> "RoomNotFound", saves |-> 0]
            /\ UNCHANGED <<store, expiry, last_manual>>
       ELSE LET room == get_room(room_id)
                new_index == index_of(room.queue, track_id)
            IN IF new_index = -1
               THEN /\ ev' = [op |-> "play_track", result |-> "NoTrack", saves |-> 0]
                    /\ UNCHANGED <<store, expiry, last_manual>>
               ELSE /\ save_room(room_id,
                          [room EXCEPT !.player.current_track_index = new_index,
                                       !.player.is_playing = TRUE,
                                       !.player.timestamp = 0,
                                       !.player.start_time = now,
                                       !.player.last_updated = now])
                    /\ ev' = [op |-> "play_track", result |-> "Saved", saves |-> 1]
                    /\ last_manual' = now
    /\ UNCHANGED <<sid_room_map, now, next_track, inflight>>

NoIndex == -1

\* restart_at that leaves the playback anchor of the track before
restart_at_keeps_anchor(state, index, t) ==
    [state EXCEPT !.current_track_index = index, !.timestamp = 0, !.is_playing = TRUE]

\* player_control lines 528-530, 532-535, 539-542, 551-554
restart_at(state, index, t) ==
    [state EXCEPT !.current_track_index = index, !.timestamp = 0,
                  !.is_playing = TRUE, !.start_time = t]

\* next_state that repeats the track on a manual skip too
next_state_any_skip_repeats(state, queue, is_auto, t) ==
    IF state.loop_mode = "track"
    THEN restart_at(state, state.current_track_index, t)
    ELSE IF state.current_track_index < Len(queue) - 1
    THEN restart_at(state, state.current_track_index + 1, t)
    ELSE IF state.loop_mode = "queue"
    THEN restart_at(state, 0, t)
    ELSE [state EXCEPT !.is_playing = FALSE, !.timestamp = 0]

\* player_control lines 525-548
next_state(state, queue, is_auto, t) ==
    IF is_auto /\ state.loop_mode = "track"
    THEN restart_at(state, state.current_track_index, t)
    ELSE IF state.current_track_index < Len(queue) - 1
    THEN restart_at(state, state.current_track_index + 1, t)
    ELSE IF state.loop_mode = "queue"
    THEN restart_at(state, 0, t)
    ELSE [state EXCEPT !.is_playing = FALSE, !.timestamp = 0]

\* player_control lines 549-554
prev_state(state, t) ==
    IF state.current_track_index > 0
    THEN restart_at(state, state.current_track_index - 1, t)
    ELSE state

\* player_control lines 482-556; data carries index (play), loop_mode (loop), auto (next)
player_control_state(room, action, timestamp, data, t) ==
    LET state == [room.player EXCEPT !.last_updated = t] IN
    CASE action = "play" ->
            [state EXCEPT !.is_playing = TRUE,
                          !.timestamp = timestamp,
                          !.start_time = t - timestamp,
                          !.current_track_index = IF data.index = NoIndex THEN @ ELSE data.index]
      [] action = "pause" -> [state EXCEPT !.is_playing = FALSE, !.timestamp = timestamp]
      [] action = "seek" ->
            [state EXCEPT !.timestamp = timestamp,
                          !.start_time = IF state.is_playing THEN t - timestamp ELSE @]
      [] action = "loop" -> [state EXCEPT !.loop_mode = data.loop_mode]
      [] action = "next" -> next_state(state, room.queue, data.auto, t)
      [] action = "prev" -> prev_state(state, t)
      [] OTHER -> state

\* the keys of data that player_control reads besides action and timestamp
Data(index, loop_mode, auto) == [index |-> index, loop_mode |-> loop_mode, auto |-> auto]

player_control(sid, room_id, action, timestamp, data) ==
    /\ IF ~RoomExists(room_id)
       THEN /\ ev' = [op |-> "player_control", result |-> "RoomNotFound", saves |-> 0]
            /\ UNCHANGED <<store, expiry, last_manual>>
       ELSE LET room == get_room(room_id) IN
            /\ save_room(room_id,
                   [room EXCEPT !.player = player_control_state(room, action, timestamp, data, now)])
            /\ ev' = [op |-> "player_control", result |-> "Saved", saves |-> 1,
                      action |-> action, auto |-> data.auto]
            /\ last_manual' = now
    /\ UNCHANGED <<sid_room_map, now, next_track, inflight>>

\* host_state_player behind the 1.5 s guard of host_sync
host_state_player_guarded(player, timestamp, is_playing, t) ==
    IF sync_guard(player, t) THEN player
    ELSE [player EXCEPT !.timestamp = timestamp,
                        !.is_playing = is_playing,
                        !.start_time = IF is_playing THEN t - timestamp ELSE @,
                        !.last_updated = t]

\* host_state_response lines 374-378
host_state_player(player, timestamp, is_playing, t) ==
    [player EXCEPT !.timestamp = timestamp,
                   !.is_playing = is_playing,
                   !.start_time = IF is_playing THEN t - timestamp ELSE @,
                   !.last_updated = t]

\* request_sync lines 353-359
request_sync(sid, room_id) ==
    /\ ev' = IF ~RoomExists(room_id)
             THEN [op |-> "request_sync", result |-> "RoomNotFound", saves |-> 0, emits |-> <<>>]
             ELSE IF get_room(room_id).admin_sid = NoSid
             THEN [op |-> "request_sync", result |-> "NoAdmin", saves |-> 0, emits |-> <<>>]
             ELSE [op |-> "request_sync", result |-> "Asked", saves |-> 0,
                   emits |-> <<Emit("get_host_state", get_room(room_id).admin_sid, NoRoomId,
                                    NoSid, [requester_sid |-> sid])>>]
    /\ UNCHANGED <<store, expiry, sid_room_map, now, next_track, last_manual, inflight>>

host_state_response(sid, room_id, timestamp, is_playing, requester_sid) ==
    /\ IF ~RoomExists(room_id)
       THEN /\ ev' = [op |-> "host_state_response", result |-> "RoomNotFound", saves |-> 0,
                      emits |-> <<>>]
            /\ UNCHANGED <<store, expiry, expiry>>
       ELSE LET room == get_room(room_id) IN
            IF room.admin_sid # sid
            THEN /\ ev' = [op |-> "host_state_response", result |-> "NotAdmin", saves |-> 0,
                           emits |-> <<>>]
                 /\ UNCHANGED <<store, expiry, expiry>>
            ELSE /\ save_room(room_id,
                       [room EXCEPT !.player = host_state_player(@, timestamp, is_playing, now)])
                 /\ ev' = [op |-> "host_state_response", result |-> "Saved", saves |-> 1,
                           emits |-> <<Emit("sync_target", requester_sid, NoRoomId, NoSid,
                                            [timestamp |-> timestamp,
                                             is_playing |-> is_playing])>>]
    /\ UNCHANGED <<sid_room_map, now, next_track, last_manual, inflight>>

Tick(t) ==
    /\ t > now
    /\ now' = t
    /\ ev' = [op |-> "tick", result |-> "Tick", saves |-> 0]
    /\ UNCHANGED <<store, expiry, sid_room_map, next_track, last_manual, inflight>>


(***************************************************************************)
(* The handlers as asyncio tasks.  A handler is suspended at every store   *)
(* call (await get_room, await save_room) and runs without interruption    *)
(* between two of them, so the store calls of different handlers           *)
(* interleave.  A suspended handler is a record of inflight:               *)
(*   await "save": it has read base and computed writes, the records its   *)
(*                 save_room calls will write, and continues with fn;      *)
(*   await "get":  it is inside add_user or remove_user (fn), about to     *)
(*                 read the room.                                          *)
(***************************************************************************)
Suspended(await, conn, closing, room_id, base, writes, fn, sid, nickname, user_id) ==
    [await |-> await, conn |-> conn, closing |-> closing, room_id |-> room_id,
     base |-> base, writes |-> writes, fn |-> fn, sid |-> sid,
     nickname |-> nickname, user_id |-> user_id]

AwaitSave(conn, room_id, base, writes, fn, sid) ==
    Suspended("save", conn, FALSE, room_id, base, writes, fn, sid, "", NoUser)

AwaitGet(conn, room_id, fn, sid, nickname, user_id) ==
    Suspended("get", conn, FALSE, room_id, Room, <<>>, fn, sid, nickname, user_id)

\* a connection sends nothing after its disconnect
Open(sid) == \A c \in inflight : ~(c.conn = sid /\ c.closing)

CanSuspend == Cardinality(inflight) < MaxInflight

\* join_room lines 111-128, up to the call of add_user
begin_join_room(sid, room_id, nickname, password, user_id) ==
    /\ Open(sid)
    /\ CanSuspend
    /\ IF ~RoomExists(room_id)
       THEN /\ ev' = [op |-> "join_room", result |-> "RoomNotFound", saves |-> 0]
            /\ UNCHANGED inflight
       ELSE IF ~verify_password(get_room(room_id), password)
       THEN /\ ev' = [op |-> "join_room", result |-> "WrongPassword", saves |-> 0]
            /\ UNCHANGED inflight
       ELSE IF user_id # NoUser /\ user_id \in Range(get_room(room_id).banned_user_ids)
       THEN /\ ev' = [op |-> "join_room", result |-> "Banned", saves |-> 0]
            /\ UNCHANGED inflight
       ELSE /\ inflight' = inflight \cup
                   {AwaitGet(sid, room_id, "add_user", sid, nickname, user_id)}
            /\ ev' = [op |-> "join_room", result |-> "Suspended", saves |-> 0]
    /\ UNCHANGED <<store, expiry, sid_room_map, now, next_track, last_manual>>

\* disconnect lines 92-95, up to the save_room of remove_user
begin_disconnect(sid) ==
    /\ Open(sid)
    /\ CanSuspend
    /\ sid_room_map' = [s \in DOMAIN sid_room_map \ {sid} |-> sid_room_map[s]]
    /\ IF sid \in DOMAIN sid_room_map /\ RoomExists(sid_room_map[sid])
       THEN LET room_id == sid_room_map[sid]
                room == get_room(room_id)
            IN /\ inflight' = inflight \cup
                      {[AwaitSave(sid, room_id, room, <<remove_user(room, sid)>>, "return", sid)
                           EXCEPT !.closing = TRUE]}
               /\ ev' = [op |-> "disconnect", result |-> "Suspended", saves |-> 0]
       ELSE /\ UNCHANGED inflight
            /\ ev' = [op |-> "disconnect", result |-> "NoRoom", saves |-> 0]
    /\ UNCHANGED <<store, expiry, now, next_track, last_manual>>

\* kick_user lines 565-577, up to its first store call after get_room
begin_kick_user(sid, room_id, target_sid) ==
    /\ Open(sid)
    /\ CanSuspend
    /\ RoomExists(room_id) => Len(get_room(room_id).banned_user_ids) < MaxBanned
    /\ IF ~RoomExists(room_id)
       THEN /\ ev' = [op |-> "kick_user", result |-> "RoomNotFound", saves |-> 0]
            /\ UNCHANGED inflight
       ELSE LET room == get_room(room_id) IN
            IF room.admin_sid # sid
            THEN /\ ev' = [op |-> "kick_user", result |-> "NotAdmin", saves |-> 0]
                 /\ UNCHANGED inflight
            ELSE /\ inflight' = inflight \cup
                        {IF ban_target(room, target_sid) # room
                         THEN AwaitSave(sid, room_id, room, <<ban_target(room, target_sid)>>,
                                        "remove_user", target_sid)
                         ELSE AwaitGet(sid, room_id, "remove_user", target_sid, "", NoUser)}
                 /\ ev' = [op |-> "kick_user", result |-> "Suspended", saves |-> 0]
    /\ UNCHANGED <<store, expiry, sid_room_map, now, next_track, last_manual>>

\* client_pong lines 459-470, up to save_room
begin_client_pong(sid, room_id) ==
    /\ Open(sid)
    /\ CanSuspend
    /\ IF RoomExists(room_id) /\ sid \in SidsOf(get_room(room_id).users)
       THEN LET room == get_room(room_id) IN
            /\ inflight' = inflight \cup
                   {AwaitSave(sid, room_id, room,
                              <<[room EXCEPT !.users = pong_users(@, sid, now)]>>, "return", sid)}
            /\ ev' = [op |-> "client_pong", result |-> "Suspended", saves |-> 0]
       ELSE /\ UNCHANGED inflight
            /\ ev' = [op |-> "client_pong", result |-> "NoSession", saves |-> 0]
    /\ UNCHANGED <<store, expiry, sid_room_map, now, next_track, last_manual>>

\* host_sync lines 399-453, up to its first save_room: the sync save writes
\* the room with all its users, the cleanup save the room without the zombies
begin_host_sync(sid, room_id, timestamp, is_playing) ==
    LET e == [op |-> "host_sync", timestamp |-> timestamp, is_playing |-> is_playing] IN
    /\ Open(sid)
    /\ CanSuspend
    /\ IF ~RoomExists(room_id)
       THEN /\ ev' = e @@ [result |-> "RoomNotFound", saves |-> 0]
            /\ UNCHANGED inflight
       ELSE LET room == get_room(room_id) IN
            IF room.admin_sid # sid
            THEN /\ ev' = e @@ [result |-> "NotAdmin", saves |-> 0]
                 /\ UNCHANGED inflight
            ELSE IF sync_guard(room.player, now)
            THEN /\ ev' = e @@ [result |-> "Ignored", saves |-> 0]
                 /\ UNCHANGED inflight
            ELSE LET synced == [room EXCEPT
                                   !.player = host_sync_player(@, timestamp, is_playing, now)]
                     users == active_users(room, now)
                     writes == (IF timestamp # NoTs THEN <<synced>> ELSE <<>>)
                               \o (IF users # room.users
                                   THEN <<[synced EXCEPT !.users = users]>>
                                   ELSE <<>>)
                 IN /\ inflight' = IF writes = <<>> THEN inflight
                                    ELSE inflight \cup
                                         {AwaitSave(sid, room_id, room, writes, "return", sid)}
                    /\ ev' = e @@ [result |-> "Suspended", saves |-> 0]
    /\ UNCHANGED <<store, expiry, sid_room_map, now, next_track, last_manual>>

\* add_track lines 163-198, from the resolved url up to the first save_room: the
\* first save writes the room with the track appended, the second (first track
\* only) the same room with current_track_index 0
begin_add_track(sid, room_id, url) ==
    /\ Open(sid)
    /\ CanSuspend
    /\ resolve_media(url)
    /\ RoomExists(room_id)
    /\ next_track < MaxTracks
    /\ next_track' = next_track + 1
    /\ LET room == get_room(room_id)
           track == Track(next_track + 1, adder_name(room, sid))
           appended == [room EXCEPT !.queue = Append(@, track)]
       IN inflight' = inflight \cup
              {AwaitSave(sid, room_id, room,
                         <<appended>> \o (IF Len(appended.queue) = 1
                                          THEN <<add_track_room(room, track)>>
                                          ELSE <<>>),
                         "return", sid)}
    /\ ev' = [op |-> "add_track", result |-> "Suspended", saves |-> 0]
    /\ UNCHANGED <<store, expiry, sid_room_map, now, last_manual>>

\* player_control lines 478-557, up to save_room
begin_player_control(sid, room_id, action, timestamp, data) ==
    /\ Open(sid)
    /\ CanSuspend
    /\ RoomExists(room_id)
    /\ LET room == get_room(room_id) IN
       inflight' = inflight \cup
          {AwaitSave(sid, room_id, room,
                     <<[room EXCEPT !.player =
                           player_control_state(room, action, timestamp, data, now)]>>,
                     "return", sid)}
    /\ last_manual' = now
    /\ ev' = [op |-> "player_control", result |-> "Suspended", saves |-> 0]
    /\ UNCHANGED <<store, expiry, sid_room_map, now, next_track>>

\* get_room inside add_user (line 54) or remove_user (line 87) returns, and the
\* function runs up to its save_room
resume_get(c) ==
    /\ c.await = "get"
    /\ RoomExists(c.room_id)
    /\ LET room == get_room(c.room_id) IN
       IF c.fn = "add_user"
       THEN IF add_user_saves(room, c.sid, c.user_id)
            THEN /\ inflight' = (inflight \ {c}) \cup
                        {AwaitSave(c.conn, c.room_id, room,
                                   <<add_user(room, c.sid, c.nickname, c.user_id)>>,
                                   "joined", c.sid)}
                 /\ UNCHANGED sid_room_map
            ELSE /\ inflight' = inflight \ {c}
                 /\ sid_room_map' = (c.sid :> c.room_id) @@ sid_room_map
       ELSE /\ inflight' = (inflight \ {c}) \cup
                   {AwaitSave(c.conn, c.room_id, room, <<remove_user(room, c.sid)>>,
                              "return", c.sid)}
            /\ UNCHANGED sid_room_map
    /\ ev' = [op |-> "get_room", result |-> c.fn, saves |-> 0]
    /\ UNCHANGED <<store, expiry, now, next_track, last_manual>>

\* save_room returns (room.py line 44): the record is written over whatever the
\* store holds, and the handler runs on to its next store call or to its end
resume_save(c) ==
    /\ c.await = "save"
    /\ save_room(c.room_id, Head(c.writes))
    /\ IF Len(c.writes) > 1
       THEN /\ inflight' = (inflight \ {c}) \cup
                   {[c EXCEPT !.writes = Tail(@), !.base = Head(c.writes)]}
            /\ UNCHANGED sid_room_map
       ELSE IF c.fn = "remove_user"
       THEN /\ inflight' = (inflight \ {c}) \cup
                   {AwaitGet(c.conn, c.room_id, "remove_user", c.sid, "", NoUser)}
            /\ UNCHANGED sid_room_map
       ELSE /\ inflight' = inflight \ {c}
            /\ sid_room_map' = IF c.fn = "joined"
                               THEN (c.sid :> c.room_id) @@ sid_room_map
                               ELSE sid_room_map
    /\ ev' = [op |-> "save_room", result |-> c.fn, saves |-> 1,
              stale |-> get_room(c.room_id) # c.base]
    /\ UNCHANGED <<now, next_track, last_manual>>

(***************************************************************************)
(* Specifications                                                          *)
(***************************************************************************)
Init ==
    /\ store = <<>>
    /\ expiry = <<>>
    /\ sid_room_map = <<>>
    /\ now = StartTime
    /\ next_track = 0
    /\ ev = [op |-> "init", result |-> "Init", saves |-> 0]
    /\ last_manual = NoTime
    /\ inflight = {}

\* A room with two members: the state after create_room_endpoint and the joins
\* of connections 1 ("ann", who becomes admin) and 2 ("bob").
InitJoined ==
    /\ store = ("r1" :> add_user(add_user(Room, 1, "ann", NoUser), 2, "bob", NoUser))
    /\ expiry = ("r1" :> StartTime + ROOM_TTL)
    /\ sid_room_map = (1 :> "r1") @@ (2 :> "r1")
    /\ now = StartTime
    /\ next_track = 0
    /\ ev = [op |-> "init", result |-> "Init", saves |-> 0]
    /\ last_manual = NoTime
    /\ inflight = {}

\* reorder-queue payloads: id lists, with repeated and unknown ids
QueueIds == UNION {[1..n -> TrackIds] : n \in 0..MaxOrder}

\* Queue and playback control, at one instant.
NextQ ==
    \/ \E url \in {"none", "dead", "song"} : add_track(2, "r1", url)
    \/ \E sid \in Sids, track_id \in TrackIds : remove_track(sid, "r1", track_id)
    \/ \E new_queue_ids \in QueueIds : reorder_queue(1, "r1", new_queue_ids)
    \/ shuffle_queue(1, "r1")
    \/ \E track_id \in TrackIds : play_track(1, "r1", track_id)
    \/ \E index \in {NoIndex} \cup (0..MaxTracks) :
          player_control(1, "r1", "play", 0, Data(index, "off", FALSE))
    \/ \E action \in {"pause", "prev", "stop"} :
          player_control(1, "r1", action, 0, Data(NoIndex, "off", FALSE))
    \/ \E loop_mode \in {"off", "queue"} :
          player_control(1, "r1", "loop", 0, Data(NoIndex, loop_mode, FALSE))
    \/ player_control(1, "r1", "next", 0, Data(NoIndex, "off", FALSE))

SpecQ == InitJoined /\ [][NextQ]_vars

\* Playback control and host reports around the 1.5 s guard.
NextP ==
    \/ add_track(2, "r1", "song")
    \/ \E track_id \in TrackIds : play_track(2, "r1", track_id)
    \/ \E action \in {"play", "pause", "seek"}, timestamp \in {0, 2} :
          player_control(2, "r1", action, timestamp, Data(NoIndex, "off", FALSE))
    \/ \E sid \in {1, 2}, timestamp \in {NoTs, 0, 2}, is_playing \in {"None", "True", "False"} :
          host_sync(sid, "r1", timestamp, is_playing)
    \/ \E sid \in {1, 2}, timestamp \in {0, 2}, is_playing \in BOOLEAN :
          host_state_response(sid, "r1", timestamp, is_playing, 2)
    \/ \E t \in GuardInstants : Tick(t)

SpecP == InitJoined /\ [][NextP]_vars

\* Presence: liveness replies and host-syncs on both sides of the 1.5 s guard
\* and of the 15 s threshold, while a third member joins and the host changes.
NextZ ==
    \/ join_room(3, "r1", "cat", NoPassword, NoUser)
    \/ disconnect(1)
    \/ \E sid \in Sids : client_pong(sid, "r1")
    \/ \E sid \in Sids, timestamp \in {NoTs, 0} : host_sync(sid, "r1", timestamp, "True")
    \/ \E t \in PresenceInstants \cup {StartTime + 2} : Tick(t)

SpecZ == InitJoined /\ [][NextZ]_vars

\* Membership and presence with the handlers' store calls interleaved: ann
\* (the admin) and bob are in the room, a third connection comes and goes.
NextC ==
    \/ \E sid \in {2, MaxSids}, user_id \in UserIds : begin_join_room(sid, "r1", "cat", NoPassword, user_id)
    \/ \E sid \in Sids : begin_disconnect(sid)
    \/ \E sid \in {1, 2}, target_sid \in {2, MaxSids} : begin_kick_user(sid, "r1", target_sid)
    \/ begin_client_pong(2, "r1")
    \/ \E sid \in {1, 2} : begin_host_sync(sid, "r1", NoTs, "None")
    \/ \E c \in inflight : resume_get(c)
    \/ \E c \in inflight : resume_save(c)
    \/ Tick(StartTime + ZombieAfter + MaxLate)

SpecC == InitJoined /\ [][NextC]_vars

\* Room access: creation with or without a password, joins with every kind of
\* password and persistent id, and the ways a member leaves; no clock.
Passwords == {NoPassword, "", "secret", "guess"}

Salts == {1, 2}

NextA ==
    \/ \E password \in {NoPassword, "", "secret"}, salt \in Salts :
          create_room_endpoint("r1", password, salt)
    \/ check_room("r1")
    \/ \E sid \in Sids, password \in Passwords, user_id \in UserIds \cup {NoUser} :
          join_room(sid, "r1", "ann", password, user_id)
    \/ \E sid \in Sids : disconnect(sid)
    \/ \E sid \in Sids, target_sid \in Sids : kick_user(sid, "r1", target_sid)

SpecA == Init /\ [][NextA]_vars

\* Identity of the sessions: connections join and join again under two
\* nicknames, with and without a persistent id, and members leave; no clock.
Nicknames == {"ann", "bob"}

NextU ==
    \/ create_room_endpoint("r1", NoPassword, 0)
    \/ \E sid \in Sids, nickname \in Nicknames, user_id \in UserIds \cup {NoUser} :
          join_room(sid, "r1", nickname, NoPassword, user_id)
    \/ \E sid \in Sids : disconnect(sid)
    \/ \E sid \in Sids, target_sid \in Sids : kick_user(sid, "r1", target_sid)

SpecU == Init /\ [][NextU]_vars

\* Rejected and unauthorised requests next to the accepted ones: a room with
\* or without a password, members, a queue, and every handler called by every
\* connection; player-control also without an action and with an unknown one.
NoAction == "<None>"

NextE ==
    \/ \E password \in {NoPassword, "secret"} : create_room_endpoint("r1", password, 1)
    \/ \E sid \in Sids, password \in {NoPassword, "secret"} :
          join_room(sid, "r1", IF sid = 1 THEN "ann" ELSE "bob", password,
                    IF sid = MaxSids THEN 1 ELSE NoUser)
    \/ \E sid \in Sids : kick_user(sid, "r1", MaxSids)
    \/ \E sid \in Sids : host_sync(sid, "r1", 0, "True")
    \/ \E sid \in Sids : host_state_response(sid, "r1", 0, TRUE, 2)
    \/ \E url \in {"none", "dead", "song"} :
          next_track < MaxTracks - 1 /\ add_track(2, "r1", url)
    \/ \E sid \in Sids, track_id \in TrackIds : remove_track(sid, "r1", track_id)
    \/ \E action \in {NoAction, "stop", "pause"} :
          player_control(1, "r1", action, 0, Data(NoIndex, "off", FALSE))

SpecE == Init /\ [][NextE]_vars

\* Two members and a third connection with a persistent id; the handlers that
\* append a track, ban, remove a session and refresh last_seen, interleaved at
\* their store calls.
NextR ==
    \/ begin_join_room(MaxSids, "r1", "cat", NoPassword, 1)
    \/ begin_kick_user(1, "r1", MaxSids)
    \/ begin_disconnect(2)
    \/ begin_client_pong(2, "r1")
    \/ begin_add_track(2, "r1", "song")
    \/ \E c \in inflight : resume_get(c)
    \/ \E c \in inflight : resume_save(c)

SpecR == InitJoined /\ [][NextR]_vars

\* Joining and presence: a third connection joins, members join again with
\* or without a persistent id, reply to liveness probes or stay silent, and the
\* host syncs on both sides of the 15 s threshold.
NextJ ==
    \/ \E sid \in Sids \ {1}, user_id \in UserIds \cup {NoUser} :
          join_room(sid, "r1", "cat", NoPassword, user_id)
    \/ \E sid \in Sids \ {1} : client_pong(sid, "r1")
    \/ host_sync(1, "r1", NoTs, "None")
    \/ \E t \in PresenceInstants : Tick(t)

SpecJ == InitJoined /\ [][NextJ]_vars

\* A member that replies on time.  bob's liveness replies interleave with the
\* host's host-sync, player-control and add-track at their store calls; the
\* clock moves on, by less than 15 s, only when none of bob's replies is still
\* being handled and the Room holds his reply of the current instant, so his
\* replies are handled less than 15 s apart.  No store call takes longer than
\* 1.5 s.
ReplyInstants == {StartTime + ZombieAfter - 1, StartTime + ZombieAfter - 1 + SyncGuard}

NextL ==
    \/ begin_client_pong(2, "r1")
    \/ begin_host_sync(1, "r1", NoTs, "None")
    \/ begin_player_control(1, "r1", "pause", 0, Data(NoIndex, "off", FALSE))
    \/ next_track < MaxTracks - 2 /\ begin_add_track(1, "r1", "song")
    \/ \E c \in inflight : resume_save(c)
    \/ \E t \in ReplyInstants :
          /\ t - now < ZombieAfter
          /\ LastSeen(get_room("r1"), 2) = now
          /\ \A c \in inflight : c.conn # 2
          /\ t - now > SyncGuard => inflight = {}
          /\ Tick(t)

SpecL == InitJoined /\ [][NextL]_vars

\* Resynchronisation of a joining client: members ask for the host's state, the
\* host (or another connection) answers for some requester, next to manual
\* control actions and host reports on both sides of the 1.5 s guard, while
\* the host changes or the room empties.
NextS ==
    \/ \E sid \in Sids : request_sync(sid, "r1")
    \/ \E sid \in {1, 2}, timestamp \in {0, 2}, is_playing \in BOOLEAN,
          requester_sid \in {2, MaxSids} :
          host_state_response(sid, "r1", timestamp, is_playing, requester_sid)
    \/ \E action \in {"play", "pause"} :
          player_control(2, "r1", action, 0, Data(NoIndex, "off", FALSE))
    \/ \E sid \in {1, 2} : host_sync(sid, "r1", 0, "True")
    \/ \E sid \in {1, 2} : disconnect(sid)
    \/ \E t \in GuardInstants : Tick(t)

SpecS == InitJoined /\ [][NextS]_vars

\* Connections over two rooms: two connections, one with a persistent id, join
\* one room and then the other, the first kicks the second, connections
\* close.
TwoRooms == {"r1", "r2"}

NextD ==
    \/ \E room_id \in TwoRooms : create_room_endpoint(room_id, NoPassword, 0)
    \/ \E sid \in {1, 2}, room_id \in TwoRooms :
          join_room(sid, room_id, "ann", NoPassword, IF sid = 2 THEN 1 ELSE NoUser)
    \/ \E sid \in {1, 2} : disconnect(sid)
    \/ \E room_id \in TwoRooms : kick_user(1, room_id, 2)

SpecD == Init /\ [][NextD]_vars

\* The life of a room record: every kind of event on the room, shortly after
\* its creation and around the instants at which the record expires when it
\* was last saved at StartTime or 2.5 s later.
ExpiryInstants ==
    {StartTime + 5} \cup {StartTime + ROOM_TTL + o : o \in {0, 4, 5}}

NextX ==
    \/ check_room("r1")
    \/ join_room(MaxSids, "r1", "cat", NoPassword, 1)
    \/ disconnect(2)
    \/ kick_user(1, "r1", MaxSids)
    \/ request_sync(2, "r1")
    \/ \E timestamp \in {NoTs, 2} : host_sync(1, "r1", timestamp, "True")
    \/ client_pong(2, "r1")
    \/ next_track < MaxTracks - 2 /\ add_track(2, "r1", "song")
    \/ remove_track(1, "r1", 1)
    \/ reorder_queue(1, "r1", <<1>>)
    \/ shuffle_queue(1, "r1")
    \/ player_control(2, "r1", "pause", 0, Data(NoIndex, "off", FALSE))
    \/ \E t \in ExpiryInstants : Tick(t)

SpecX == InitJoined /\ [][NextX]_vars

\* Playback control over time: a queue of up to three tracks, every control
\* action in every loop mode, automatic and manual skips, and the host's
\* reports, on both sides of the 1.5 s guard.
LoopModes == {"off", "queue", "track"}

NextN ==
    \/ add_track(2, "r1", "song")
    \/ \E track_id \in {1, MaxTracks} : play_track(2, "r1", track_id)
    \/ \E action \in {"play", "pause", "seek"}, timestamp \in {0, 2} :
          player_control(2, "r1", action, timestamp, Data(NoIndex, "off", FALSE))
    \/ \E loop_mode \in LoopModes :
          player_control(2, "r1", "loop", 0, Data(NoIndex, loop_mode, FALSE))
    \/ \E auto \in BOOLEAN :
          player_control(2, "r1", "next", 0, Data(NoIndex, "off", auto))
    \/ player_control(2, "r1", "prev", 0, Data(NoIndex, "off", FALSE))
    \/ \E timestamp \in {NoTs, 2}, is_playing \in {"None", "True", "False"} :
          host_sync(1, "r1", timestamp, is_playing)
    \/ \E is_playing \in BOOLEAN : host_state_response(1, "r1", 2, is_playing, 2)
    \/ \E t \in {StartTime + 2, StartTime + 5} : Tick(t)

SpecN == InitJoined /\ [][NextN]_vars

NextM ==
    \/ \E room_id \in RoomIds : create_room_endpoint(room_id, NoPassword, 0)
    \/ \E sid \in Sids, room_id \in RoomIds, user_id \in UserIds \cup {NoUser} :
          join_room(sid, room_id, "ann", NoPassword, user_id)
    \/ \E sid \in Sids : disconnect(sid)
    \/ \E sid \in Sids, room_id \in RoomIds, target_sid \in Sids :
          kick_user(sid, room_id, target_sid)
    \/ \E sid \in Sids, room_id \in RoomIds : client_pong(sid, room_id)
    \/ \E sid \in Sids, room_id \in RoomIds : host_sync(sid, room_id, NoTs, "None")
    \/ Tick(StartTime + ZombieAfter + MaxLate)

SpecM == Init /\ [][NextM]_vars

(***************************************************************************)
(* Properties                                                              *)
(***************************************************************************)
Count(s, x) == Cardinality({i \in DOMAIN s : s[i] = x})

IsPermutation(s, t) == Len(s) = Len(t) /\ \A x \in Range(s) \cup Range(t) : Count(s, x) = Count(t, x)

IndexValid(room) ==
    IF room.queue = <<>>
    THEN room.player.current_track_index = 0 /\ ~room.player.is_playing
    ELSE 0 <= room.player.current_track_index
         /\ room.player.current_track_index < Len(room.queue)

\* C2: in every persisted Room, an empty queue has current_track_index = 0 and
\* is_playing = false, and a non-empty queue has 0 <= current_track_index <
\* length(queue).  player_control breaks it: play and next set is_playing on an
\* empty queue, and play stores any index it is given.
C2_IndexAlwaysValid == \A room_id \in DOMAIN store : IndexValid(store[room_id])

\* C3: add-track, remove-track, reorder-queue and shuffle-queue each take a
\* room with a valid index to a room with a valid index.  remove_track breaks
\* it on a queue that holds one track id twice, which reorder_queue builds
\* from a repeated id.
C3_QueueMutationKeepsIndexValid ==
    [][\A room_id \in DOMAIN store :
          (/\ ev'.op \in {"add_track", "remove_track", "reorder_queue", "shuffle_queue"}
           /\ IndexValid(store[room_id]))
          => IndexValid(store'[room_id])]_vars

\* C6: remove-track index repair.  With r the position of the removed track
\* and c the index before: r < c gives max(0, c-1); r > c leaves c; r = c with
\* tracks left leaves c when c < new length and gives 0 otherwise, is_playing
\* as before; r = c emptying the queue gives c = 0 and is_playing = false; an
\* absent id changes neither queue nor PlayerState.
C6_RemoveTrackRepair ==
    [][\A room_id \in DOMAIN store :
          (ev'.op = "remove_track" /\ ev'.result = "Saved") =>
          LET before == store[room_id]
              after == store'[room_id]
              positions == {i \in 0..(Len(before.queue) - 1) : before.queue[i + 1].id = ev'.track_id}
              c == before.player.current_track_index
              c2 == after.player.current_track_index
          IN IF positions = {}
             THEN after.queue = before.queue /\ after.player = before.player
             ELSE LET r == CHOOSE i \in positions : \A j \in positions : i <= j IN
                  /\ after.queue = SelectSeq(before.queue, LAMBDA t : t.id # ev'.track_id)
                  /\ r < c => c2 = Max(0, c - 1)
                  /\ r > c => c2 = c
                  /\ (r = c /\ after.queue # <<>>) =>
                        /\ c2 = IF c < Len(after.queue) THEN c ELSE 0
                        /\ after.player.is_playing = before.player.is_playing
                  /\ (r = c /\ after.queue = <<>>) =>
                        c2 = 0 /\ ~after.player.is_playing]_vars

\* The playing track, last in the queue, has just been removed and the index is reset.
C6_Witness ==
    /\ ev.op = "remove_track" /\ ev.result = "Saved"
    /\ ev.removed_index = 1 /\ ev.current_index = 1
    /\ Len(store["r1"].queue) = 1
    /\ store["r1"].player.current_track_index = 0
    /\ store["r1"].player.is_playing

\* C7: reorder-queue keeps the playing track.  If the id at current_track_index
\* occurs in the new order, the track at current_track_index afterwards has
\* that id and is_playing is as before; if it is left out, current_track_index
\* = 0 and is_playing = false.
C7_ReorderKeepsPlayingTrack ==
    [][\A room_id \in DOMAIN store :
          (ev'.op = "reorder_queue" /\ ev'.result = "Saved") =>
          LET before == store[room_id]
              after == store'[room_id]
              c == before.player.current_track_index
              c2 == after.player.current_track_index
          IN (0 <= c /\ c < Len(before.queue)) =>
             IF before.queue[c + 1].id \in Range(ev'.queue_ids)
             THEN /\ 0 <= c2 /\ c2 < Len(after.queue)
                  /\ after.queue[c2 + 1].id = before.queue[c + 1].id
                  /\ after.player.is_playing = before.player.is_playing
             ELSE c2 = 0 /\ ~after.player.is_playing]_vars

\* The playing track 1 was moved from the front to the end of a three-track queue.
C7_Witness ==
    /\ ev.op = "reorder_queue" /\ ev.result = "Saved"
    /\ ev.current_track_id = 1 /\ ev.kept
    /\ ev.queue_ids = <<3, 2, 1>>
    /\ store["r1"].player.current_track_index = 2
    /\ store["r1"].queue[3].id = 1
    /\ store["r1"].player.is_playing

\* C8: shuffle-queue on a non-empty queue with a valid index yields a
\* permutation of the queue with the playing track first and
\* current_track_index = 0, is_playing and timestamp as before; every order of
\* the other tracks is a possible outcome; on an empty queue nothing changes
\* and nothing is saved.
C8_ShufflePinsPlayingTrack ==
    /\ [][\A room_id \in DOMAIN store :
            ev'.op = "shuffle_queue" =>
            LET before == store[room_id]
                after == store'[room_id]
                c == before.player.current_track_index
            IN /\ (ev'.result = "Saved" /\ 0 <= c /\ c < Len(before.queue)) =>
                    /\ IsPermutation(after.queue, before.queue)
                    /\ after.queue[1] = before.queue[c + 1]
                    /\ after.player.current_track_index = 0
                    /\ after.player.is_playing = before.player.is_playing
                    /\ after.player.timestamp = before.player.timestamp
               /\ before.queue = <<>> => (after = before /\ ev'.saves = 0)]_vars
    /\ [](\A room_id \in DOMAIN store :
            LET room == store[room_id]
                c == room.player.current_track_index
            IN (0 <= c /\ c < Len(room.queue)) =>
               \A rest \in Shuffles(Without(room.queue, c + 1)) :
                  ENABLED (/\ shuffle_queue(1, room_id)
                           /\ store'[room_id].queue = <<room.queue[c + 1]>> \o rest))

\* A three-track queue was shuffled while its last track was playing.
C8_Witness ==
    /\ ev.op = "shuffle_queue" /\ ev.result = "Saved"
    /\ ev.current_index = 2
    /\ Len(store["r1"].queue) = 3
    /\ store["r1"].player.current_track_index = 0
    /\ store["r1"].player.is_playing

\* the host_sync just handled came from the room's admin
FromAdmin == ev'.op = "host_sync" /\ ev'.result \in {"Ignored", "Evaluated"}

Adopted(player, timestamp, is_playing, t) ==
    /\ player.timestamp = timestamp
    /\ player.is_playing = (is_playing = "True")
    /\ player.last_updated = t
    /\ is_playing = "True" => player.start_time = t - timestamp

\* C5 as stated: a host-sync from the admin with a timestamp and an is_playing
\* value, 1.5 s or more after the most recent manual control action, is
\* adopted, whatever host-syncs and host-state responses came in between.
C5_AdoptedAfterManual ==
    [][\A room_id \in DOMAIN store :
          (/\ FromAdmin
           /\ ev'.timestamp # NoTs /\ ev'.is_playing # "None"
           /\ last_manual # NoTime
           /\ now - last_manual >= SyncGuard)
          => Adopted(store'[room_id].player, ev'.timestamp, ev'.is_playing, now)]_vars

\* C5 amended: a host-sync from the admin with a timestamp and an is_playing
\* value, 1.5 s or more after the most recent event that set last_updated (a
\* manual control action, an adopted host-sync or a host-state response), is
\* adopted: timestamp and is_playing are the reported ones, last_updated = now
\* and, if playing, start_time = now - timestamp.
C5_AdoptedAfterLastUpdate ==
    [][\A room_id \in DOMAIN store :
          (/\ FromAdmin
           /\ ev'.timestamp # NoTs /\ ev'.is_playing # "None"
           /\ now - store[room_id].player.last_updated >= SyncGuard)
          => Adopted(store'[room_id].player, ev'.timestamp, ev'.is_playing, now)]_vars

\* A report was adopted 1.5 s after a manual action, with the anchor recomputed.
C5_Witness ==
    /\ ev.op = "host_sync" /\ ev.result = "Evaluated"
    /\ ev.timestamp = 2 /\ ev.is_playing = "True"
    /\ last_manual # NoTime
    /\ now - last_manual = SyncGuard
    /\ store["r1"].player.start_time = now - 2
    /\ store["r1"].player.last_updated = now

\* C9: a host-sync that passes the admin check and the 1.5 s guard removes
\* every session that is not the host and whose last_seen is more than 15 s
\* old, keeps every other session in its order, never removes the session
\* whose sid is admin_sid, and leaves admin_sid as it was.
C9_ZombieEviction ==
    [][\A room_id \in DOMAIN store :
          (ev'.op = "host_sync" /\ ev'.result = "Evaluated") =>
          LET before == store[room_id]
              after == store'[room_id]
              stale(u) == u.last_seen # NoTime /\ now - u.last_seen > ZombieAfter
          IN /\ after.users =
                   SelectSeq(before.users, LAMBDA u : u.sid = before.admin_sid \/ ~stale(u))
             /\ after.admin_sid = before.admin_sid]_vars

\* A host-sync evicted a member while the host, whose own last_seen is just as
\* old, stayed.
C9_Witness ==
    /\ ev.op = "host_sync" /\ ev.result = "Evaluated" /\ ev.removed_users
    /\ \E i \in DOMAIN store["r1"].users :
          /\ store["r1"].users[i].sid = store["r1"].admin_sid
          /\ store["r1"].users[i].last_seen # NoTime
          /\ now - store["r1"].users[i].last_seen > ZombieAfter

\* C10: removing the admin's session promotes the first remaining session in
\* list order, removing the last member leaves admin unset, and removing any
\* other session leaves admin as it was.
C10_AdminFailover ==
    [][\A room_id \in DOMAIN store :
          (ev'.op \in {"disconnect", "kick_user"} /\ ev'.result \in {"Removed", "Kicked"}) =>
          LET before == store[room_id]
              after == store'[room_id]
              rest == SelectSeq(before.users, LAMBDA u : u.sid # ev'.sid)
          IN /\ after.users = rest
             /\ after.admin_sid =
                   IF before.admin_sid # ev'.sid THEN before.admin_sid
                   ELSE IF rest = <<>> THEN NoSid
                   ELSE rest[1].sid]_vars

\* The admin of a three-member room left and the earlier of the two others was promoted.
C10_Witness ==
    /\ ev.op = "disconnect" /\ ev.result = "Removed" /\ ev.admin_left
    /\ Len(store["r1"].users) = 2
    /\ store["r1"].admin_sid = store["r1"].users[1].sid
    /\ store["r1"].users[1].sid # store["r1"].users[2].sid

AdminValid(room) ==
    /\ room.admin_sid # NoSid => room.admin_sid \in SidsOf(room.users)
    /\ room.users # <<>> => room.admin_sid # NoSid

\* C1: in every persisted Room, under every interleaving of the store calls of
\* join, disconnect, kick-user, host-sync (with its eviction) and client
\* liveness replies, admin_sid is unset or the sid of a session in users, and
\* it is set whenever users is non-empty.
C1_AdminSidValid ==
    \A room_id \in DOMAIN store : AdminValid(store[room_id])

\* a suspended handler has just written its record over a room that another
\* handler changed in between, and the admin is no longer the first one
C1_Witness ==
    /\ ev.op = "save_room"
    /\ ev.stale
    /\ store["r1"].admin_sid \notin {NoSid, 1}
    /\ Len(store["r1"].users) > 1
(***************************************************************************)
(* Access: ban and password                                                *)
(***************************************************************************)
\* the password a room was created with, read back from the model's digest
created_with(room) ==
    IF room.password_hash = NoHash THEN NoPassword ELSE room.password_hash.digest[2]

CorrectPassword(room, password) ==
    room.password_hash = NoHash \/ password = created_with(room)

\* the persistent ids of the sessions on connection sid
UserIdsOn(room, sid) ==
    {room.users[i].user_id : i \in {j \in DOMAIN room.users : room.users[j].sid = sid}}
        \ {NoUser}

\* C11: when the admin's kick-user on a member with a persistent user id has
\* completed, the target is no longer in users and its persistent id is in
\* banned_user_ids; every later join with that id and the correct password (any
\* password for an open room) is rejected as Banned and adds no session; the
\* ban list never loses an id while the room exists.
C11_KickBansForGood ==
    /\ [][\A sid \in Sids, target_sid \in Sids :
            (RoomExists("r1") /\ get_room("r1").admin_sid = sid
                /\ kick_user(sid, "r1", target_sid))
            => /\ target_sid \notin SidsOf(store'["r1"].users)
               /\ UserIdsOn(get_room("r1"), target_sid)
                      \subseteq Range(store'["r1"].banned_user_ids)]_vars
    /\ [][\A sid \in Sids, password \in Passwords, user_id \in UserIds :
            (RoomExists("r1") /\ user_id \in Range(get_room("r1").banned_user_ids)
                /\ CorrectPassword(get_room("r1"), password)
                /\ join_room(sid, "r1", "ann", password, user_id))
            => ev'.result = "Banned" /\ store' = store]_vars
    /\ [][RoomExists("r1") =>
            Range(get_room("r1").banned_user_ids)
               \subseteq Range(store'["r1"].banned_user_ids)]_vars

\* C12: a room created with a non-empty password reports hasPassword = true,
\* and a join to it adds a session only if the supplied password is the one the
\* room was created with (a missing or wrong one is rejected and changes
\* nothing); a room created without a password reports hasPassword = false and
\* admits a join with any or no password.
C12_PasswordGate ==
    /\ [][\A password \in Passwords, salt \in Salts :
            create_room_endpoint("r1", password, salt)
            => /\ has_password(store'["r1"]) <=> password \notin {NoPassword, ""}
               /\ created_with(store'["r1"]) =
                     IF password = "" THEN NoPassword ELSE password]_vars
    /\ [][RoomExists("r1") =>
            store'["r1"].password_hash = get_room("r1").password_hash]_vars
    /\ [][(RoomExists("r1") /\ check_room("r1"))
            => ev'.has_password = (created_with(get_room("r1")) # NoPassword)]_vars
    /\ [][\A sid \in Sids, password \in Passwords, user_id \in UserIds \cup {NoUser} :
            (RoomExists("r1") /\ join_room(sid, "r1", "ann", password, user_id))
            => LET room == get_room("r1")
                   banned == user_id \in Range(room.banned_user_ids)
               IN IF has_password(room) /\ password # created_with(room)
                  THEN ev'.result = "WrongPassword" /\ store' = store
                  ELSE ~banned => /\ ev'.result = "Joined"
                                  /\ sid \in SidsOf(store'["r1"].users)]_vars

\* a second member has just joined a protected room
C12_Witness ==
    /\ ev.op = "join_room"
    /\ ev.result = "Joined"
    /\ has_password(store["r1"])
    /\ Len(store["r1"].users) > 1
(***************************************************************************)
(* Identity of the sessions                                                *)
(***************************************************************************)
\* C13: in every Room no two sessions of users share a connection identifier,
\* whatever joins (also a connection joining again with another or another
\* member's persistent id), disconnects and kicks came before.
C13_SidsUnique ==
    \A room_id \in DOMAIN store :
        LET users == store[room_id].users IN
        \A i, j \in DOMAIN users : users[i].sid = users[j].sid => i = j

\* C14: in every Room at most one session carries a given persistent user id,
\* and a join whose persistent id matches a member rewrites that member's sid
\* and nickname in place, moves admin_sid along when it was that member's sid,
\* and leaves every other session and the number of sessions as they were.
C14_OneSessionPerUserId ==
    /\ [](\A room_id \in DOMAIN store :
            LET users == store[room_id].users IN
            \A i, j \in DOMAIN users :
                (users[i].user_id # NoUser /\ users[i].user_id = users[j].user_id) => i = j)
    /\ [][\A sid \in Sids, nickname \in Nicknames, user_id \in UserIds :
            (RoomExists("r1")
                /\ user_id \notin Range(get_room("r1").banned_user_ids)
                /\ \E i \in DOMAIN get_room("r1").users :
                      get_room("r1").users[i].user_id = user_id
                /\ join_room(sid, "r1", nickname, NoPassword, user_id))
            => LET room == get_room("r1")
                   i == CHOOSE k \in DOMAIN room.users : room.users[k].user_id = user_id
               IN /\ Len(store'["r1"].users) = Len(room.users)
                  /\ store'["r1"].users[i].sid = sid
                  /\ store'["r1"].users[i].nickname = nickname
                  /\ store'["r1"].users[i].user_id = user_id
                  /\ \A k \in DOMAIN room.users \ {i} : store'["r1"].users[k] = room.users[k]
                  /\ store'["r1"].admin_sid =
                        IF room.admin_sid = room.users[i].sid THEN sid ELSE room.admin_sid]_vars

\* the admin has just come back on another connection and under another
\* nickname, next to a second member
C14_Witness ==
    /\ ev.op = "join_room"
    /\ ev.result = "Joined"
    /\ ev.replaced
    /\ Len(store["r1"].users) > 1
    /\ store["r1"].users[1].sid = 3
    /\ store["r1"].users[1].nickname = "bob"
    /\ store["r1"].admin_sid = 3
(***************************************************************************)
(* Errors                                                                  *)
(***************************************************************************)
Actions == {"play", "pause", "seek", "loop", "next", "prev"}

\* the last event was rejected, not authorised or not valid
Refused(e) ==
    \/ e.result \in {"RoomNotFound", "WrongPassword", "Banned", "NotAdmin",
                     "NotAuthorized", "NoUrl", "Unresolved"}
    \/ e.op = "player_control" /\ e.result = "Saved" /\ e.action \notin Actions

\* C15: an operation that ends in an error or is not authorised (a join
\* rejected as RoomNotFound, WrongPassword or Banned; kick-user, host-sync or
\* host-state response from a non-admin; remove-track by a non-admin who did not
\* add the track; add-track without url or with a failed resolution;
\* player-control with a missing or unrecognised action) leaves the persisted
\* Room unchanged.
C15_RefusedLeavesRoom ==
    [][Refused(ev') => store' = store]_vars
(***************************************************************************)
(* Interleaved handlers of one room                                        *)
(***************************************************************************)
QueueIdsOf(room) == {room.queue[i].id : i \in DOMAIN room.queue}

\* C16: handlers of one room do not race on the Room record: however the store
\* calls of two handlers interleave, no completed operation's effect is lost.
\* No save_room takes an appended track out of the queue again, drops a ban,
\* brings back a removed session (only the save of a join adds a sid), or sets
\* a refreshed last_seen back.
C16_NoLostUpdate ==
    [][(ev'.op = "save_room" /\ RoomExists("r1"))
        => LET room == get_room("r1")
               saved == store'["r1"]
           IN /\ QueueIdsOf(room) \subseteq QueueIdsOf(saved)
              /\ Range(room.banned_user_ids) \subseteq Range(saved.banned_user_ids)
              /\ ev'.result # "joined" => SidsOf(saved.users) \subseteq SidsOf(room.users)
              /\ \A sid \in SidsOf(room.users) \cap SidsOf(saved.users) :
                    LastSeen(saved, sid) >= LastSeen(room, sid)]_vars
(***************************************************************************)
(* Presence of a session that has just joined                              *)
(***************************************************************************)
\* C17: after a successful join at server time t, by a new session or by a
\* member coming back under its persistent id, the persisted session has
\* last_seen = t, so a host-sync evaluated at that time does not evict it.
C17_JoinSetsLastSeen ==
    /\ [][(ev'.op = "join_room" /\ ev'.result = "Joined" /\ ev'.saves = 1)
            => \A i \in DOMAIN store'["r1"].users :
                  store'["r1"].users[i].sid = ev'.sid
                  => store'["r1"].users[i].last_seen = now]_vars
    /\ [][(ev.op = "join_room" /\ ev.result = "Joined" /\ ev.saves = 1
                /\ ev'.op = "host_sync")
            => ev.sid \in SidsOf(store'["r1"].users)]_vars
\* the members of InitJoined, who joined at StartTime at the latest
InitialSids == {1, 2}

\* C18: a session that is not the host and has sent no liveness reply since
\* some time t (its last reply, or its join when it never replied) is removed
\* by the first host-sync that passes the admin check and the 1.5 s guard and is
\* evaluated later than t + 15 s.
C18_SilentMemberEvicted ==
    [][(ev'.op = "host_sync" /\ ev'.result = "Evaluated")
        => LET before == store["r1"]
               after == store'["r1"]
           IN \A i \in DOMAIN before.users :
                 LET u == before.users[i]
                     t == IF u.last_seen = NoTime THEN StartTime ELSE u.last_seen
                 IN (u.sid \in InitialSids /\ u.sid # before.admin_sid
                        /\ now - t > ZombieAfter)
                    => u.sid \notin SidsOf(after.users)]_vars
\* C19: a member that is not the host and whose liveness replies are handled
\* less than 15 s apart is never evicted, however its client_pong handlers
\* interleave with host-sync, player-control and queue handlers of the room.
C19_TimelyMemberStays ==
    [][2 \in SidsOf(get_room("r1").users) => 2 \in SidsOf(store'["r1"].users)]_vars

\* no two entries of the queue carry the same id
IdsUnique(queue) ==
    \A i, j \in DOMAIN queue : queue[i].id = queue[j].id => i = j

\* position of the first occurrence of tid in an id list (0 when absent)
FirstAt(ids, tid) ==
    IF tid \in Range(ids) THEN CHOOSE i \in DOMAIN ids :
                                   /\ ids[i] = tid
                                   /\ \A j \in DOMAIN ids : ids[j] = tid => i <= j
    ELSE 0

\* C20: reorder-queue on a queue of unique ids produces exactly the tracks
\* whose ids occur both in the previous queue and in the id list, each exactly
\* once, in the order of the id list; ids stay unique in the queue even when
\* the list repeats an id or names unknown ids.
C20_ReorderExactlyOnce ==
    [][\A room_id \in DOMAIN store :
          (/\ ev'.op = "reorder_queue" /\ ev'.result = "Saved"
           /\ IdsUnique(store[room_id].queue))
          => LET before == store[room_id].queue
                 after == store'[room_id].queue
             IN /\ Range(after) = {t \in Range(before) : t.id \in Range(ev'.queue_ids)}
                /\ IdsUnique(after)
                /\ \A i, j \in DOMAIN after :
                      i < j => FirstAt(ev'.queue_ids, after[i].id)
                                  < FirstAt(ev'.queue_ids, after[j].id)]_vars

\* C21: player-control next with n = current_track_index: an automatic advance
\* in loop mode track restarts track n; otherwise, if n + 1 < length(queue),
\* track n + 1 starts; otherwise in loop mode queue track 0 starts; otherwise
\* playback stops with timestamp 0 and the index unchanged.  A started track
\* has timestamp 0, is_playing true and start_time = now.  A manual skip in
\* loop mode track therefore advances or stops and never restarts track n
\* because of the loop mode.
C21_NextAdvances ==
    [][(ev'.op = "player_control" /\ ev'.result = "Saved" /\ ev'.action = "next") =>
          LET room == store["r1"]
              p == room.player
              q == store'["r1"].player
              n == p.current_track_index
              started(i) == /\ q.current_track_index = i
                            /\ q.timestamp = 0
                            /\ q.is_playing
                            /\ q.start_time = now
          IN /\ IF ev'.auto /\ p.loop_mode = "track" THEN started(n)
                ELSE IF n + 1 < Len(room.queue) THEN started(n + 1)
                ELSE IF p.loop_mode = "queue" THEN started(0)
                ELSE ~q.is_playing /\ q.timestamp = 0 /\ q.current_track_index = n
             /\ (~ev'.auto /\ p.loop_mode = "track" /\ q.is_playing)
                   => q.current_track_index = n + 1]_vars

\* a manual skip in loop mode track has moved on to the next track
C21_Witness ==
    /\ ev.op = "player_control" /\ ev.result = "Saved"
    /\ ev.action = "next" /\ ~ev.auto
    /\ store["r1"].player.loop_mode = "track"
    /\ store["r1"].player.current_track_index = 1
    /\ store["r1"].player.is_playing
    /\ store["r1"].player.start_time = now
    /\ now > StartTime

\* C22: player-control prev when current_track_index = 0 is a no-op: every
\* field of PlayerState, last_updated included, is the same before and after,
\* so the 1.5 s guard does not discard a host-sync because of it.
C22_PrevAtStartIsNoOp ==
    [][(/\ ev'.op = "player_control" /\ ev'.result = "Saved" /\ ev'.action = "prev"
        /\ store["r1"].player.current_track_index = 0)
          => store'["r1"].player = store["r1"].player]_vars

Anchored(player) == player.start_time = player.last_updated - player.timestamp

\* C23 as stated: in every reachable state in which is_playing is true,
\* start_time = last_updated - timestamp, after any sequence of play, pause,
\* seek, setLoopMode, next, prev, play-track, host-sync and host-state-response
\* operations.
C23_AnchoredWhilePlaying ==
    \A room_id \in DOMAIN store :
       store[room_id].player.is_playing => Anchored(store[room_id].player)

\* the operation of this step sets start_time: play, seek while playing, a
\* next, prev or play-track that starts a track, and a host-sync or host-state
\* response that is adopted and reports is_playing true
SetsStartTime(before, after, e) ==
    \/ /\ e.op = "player_control" /\ e.result = "Saved"
       /\ \/ e.action = "play"
          \/ e.action = "seek" /\ before.is_playing
          \/ e.action = "next" /\ after.is_playing
          \/ e.action = "prev" /\ before.current_track_index > 0
    \/ e.op = "play_track" /\ e.result = "Saved"
    \/ e.op = "host_sync" /\ e.result = "Evaluated"
          /\ e.timestamp # NoTs /\ e.is_playing = "True"
    \/ e.op = "host_state_response" /\ e.result = "Saved" /\ after.is_playing

\* C23 (amended): right after every operation that sets start_time, is_playing
\* is true and start_time = last_updated - timestamp.
C23_AnchoredWhenSet ==
    [][\A room_id \in DOMAIN store :
          LET before == store[room_id].player
              after == store'[room_id].player
          IN SetsStartTime(before, after, ev') => after.is_playing /\ Anchored(after)]_vars

\* playback was re-anchored by a seek to 1 s while playing, after the clock moved
C23_Witness ==
    /\ ev.op = "player_control" /\ ev.result = "Saved" /\ ev.action = "seek"
    /\ store["r1"].player.is_playing
    /\ store["r1"].player.timestamp = 2
    /\ store["r1"].player.start_time = now - 2
    /\ now > StartTime

\* C24: resync on join.  request-sync never changes the Room.  A host-state
\* response sent by the connection equal to admin_sid is adopted whatever
\* now - last_updated is: timestamp and is_playing take the reported values,
\* last_updated = now, start_time = now - timestamp if playing, and nothing
\* else of the Room changes.  The sync-target that results is the only message
\* of the handler and goes to the named requester, not to the room.
C24_ResyncOnJoin ==
    [][/\ ev'.op = "request_sync" => store' = store
       /\ \A sid \in Sids, timestamp \in {0, 2}, is_playing \in BOOLEAN, requester_sid \in Sids :
             (/\ host_state_response(sid, "r1", timestamp, is_playing, requester_sid)
              /\ RoomExists("r1")
              /\ get_room("r1").admin_sid = sid)
             => LET room == get_room("r1") IN
                /\ store'["r1"] =
                      [room EXCEPT !.player.timestamp = timestamp,
                                   !.player.is_playing = is_playing,
                                   !.player.last_updated = now,
                                   !.player.start_time = IF is_playing THEN now - timestamp ELSE @]
                /\ Len(ev'.emits) = 1
                /\ ev'.emits[1].event = "sync_target"
                /\ ev'.emits[1].to = requester_sid
                /\ ev'.emits[1].room = NoRoomId]_vars

\* a host-state response was adopted less than 1.5 s after a manual control
\* action and answered to the third connection
C24_Witness ==
    /\ ev.op = "host_state_response" /\ ev.result = "Saved"
    /\ last_manual # NoTime /\ now - last_manual < SyncGuard
    /\ store["r1"].player.last_updated = now
    /\ store["r1"].player.timestamp = 2
    /\ store["r1"].player.is_playing
    /\ ev.emits[1].to = MaxSids

\* C25: the room-state that an admin's kick-user broadcasts to the room is the
\* persisted Room after the kick: the kicked session is not in its users, and
\* its admin is the persisted admin_sid, also when the admin kicked itself.
C25_KickBroadcastsPersistedRoom ==
    [][\A room_id \in DOMAIN store :
          (ev'.op = "kick_user" /\ ev'.result = "Kicked") =>
             \A i \in DOMAIN ev'.emits :
                (ev'.emits[i].event = "room_state" /\ ev'.emits[i].room = room_id) =>
                   LET state == ev'.emits[i].data.state IN
                   /\ ev'.sid \notin SidsOf(state.users)
                   /\ state.admin_sid = store'[room_id].admin_sid
                   /\ state = store'[room_id]]_vars

\* C26: once the disconnect handler of a connection has run, no persisted Room
\* holds a session or an admin_sid with that connection id, whatever rooms the
\* connection had joined, also when it had joined more than one.
C26_DisconnectLeavesNoSession ==
    [][\A sid \in Sids :
          disconnect(sid) =>
             \A room_id \in DOMAIN store' :
                /\ sid \notin SidsOf(store'[room_id].users)
                /\ store'[room_id].admin_sid # sid]_vars

\* C27: add-track with a resolved media result appends exactly one new track
\* at the end of the queue and keeps the tracks before it in their order;
\* current_track_index becomes 0 if the queue was empty and is unchanged
\* otherwise; is_playing, users, admin and bans are unchanged.
C27_AddTrackAppends ==
    [][\A room_id \in DOMAIN store :
          (ev'.op = "add_track" /\ ev'.result = "Added") =>
             LET before == store[room_id]
                 after == store'[room_id]
                 n == Len(before.queue)
             IN /\ Len(after.queue) = n + 1
                /\ SubSeq(after.queue, 1, n) = before.queue
                /\ after.queue[n + 1].id \notin QueueIdsOf(before)
                /\ after.player.current_track_index =
                      IF n = 0 THEN 0 ELSE before.player.current_track_index
                /\ after.player.is_playing = before.player.is_playing
                /\ after.users = before.users
                /\ after.admin_sid = before.admin_sid
                /\ after.banned_user_ids = before.banned_user_ids]_vars

\* a third track was added while the second one was playing
C27_Witness ==
    /\ ev.op = "add_track" /\ ev.result = "Added"
    /\ Len(store["r1"].queue) = 3
    /\ store["r1"].player.current_track_index = 1
    /\ store["r1"].player.is_playing

\* the events that write the Room in this step
Saving(e) == e.saves > 0

\* C28: sliding expiry.  Every save of a Room sets its expiry to now + 10 h.
\* Once the record has expired, every event that targets the room id is a
\* rejection or a no-op that writes nothing and does not re-create the
\* record.  An event that does not save (get-room, request-sync, a rejected
\* join, a host-sync that changes nothing) leaves the expiry as it is.
C28_SlidingExpiry ==
    [][\A room_id \in DOMAIN store :
          /\ (Saving(ev') \/ store'[room_id] # store[room_id])
                => (now < expiry[room_id] /\ expiry'[room_id] = now + ROOM_TTL)
          /\ now >= expiry[room_id]
                => (~Saving(ev') /\ store'[room_id] = store[room_id]
                    /\ expiry'[room_id] = expiry[room_id])
          /\ (~Saving(ev') \/ ev'.op \in {"check_room", "request_sync"}
                \/ ev'.result \in {"RoomNotFound", "WrongPassword", "Banned"})
                => expiry'[room_id] = expiry[room_id]]_vars

\* the record, last saved 2.5 s after the creation, expired 10 h after that
\* save, and a join was then answered with room not found
C28_Witness ==
    /\ ev.op = "join_room" /\ ev.result = "RoomNotFound"
    /\ expiry["r1"] = StartTime + 5 + ROOM_TTL
    /\ now = expiry["r1"]
====
